---- MODULE Spec2Model ----
(***************************************************************************)
(* Model of the LS-8 emulator in src/ls8/cpu.py: a 256-cell memory, eight  *)
(* registers (register 7 aliased as the stack pointer), a program counter  *)
(* and the fetch-decode-execute loop CPU.run, one action per branch of the *)
(* loop body.  Python exceptions that leave run() are recorded in          *)
(* status/fault under the name of the exception class.                     *)
(***************************************************************************)
EXTENDS Integers, Sequences, FiniteSets, TLC

VARIABLES ram, reg, pc, instruction_reg, status, fault, output, fetches, last, before

vars == <<ram, reg, pc, instruction_reg, status, fault, output, fetches, last, before>>

----------------------------------------------------------------------------
(* Instruction set, cpu.py lines 7-40 *)
ADD  == 160
AND  == 168
CALL == 80
CMP  == 167
DEC  == 102
DIV  == 163
HLT  == 1
INC  == 101
JEQ  == 85
JGE  == 90
JGT  == 87
JLE  == 89
JLT  == 88
JMP  == 84
JNE  == 86
LDI  == 130
MOD  == 164
MUL  == 162
NOP  == 0
NOT  == 105
OR   == 170
POP  == 70
PRN  == 71
PUSH == 69
RET  == 17
SHL  == 172
SHR  == 173
SUB  == 161
XOR  == 171

OPERANDS_OFFSET == 6
ALU_OFFSET == 5
PC_OFFSET == 4

ALU_MASK == 32
PC_MASK  == 16

RamSize == 256
NumRegs == 8
SP == 7
InitialStackPointer == 247

----------------------------------------------------------------------------
(* Python integer operators on the values the emulator produces *)

\* x >> n for x >= 0
RShift(x, n) == IF n >= 16 THEN 0 ELSE x \div (2 ^ n)

\* (x << n) & 0xff for x >= 0: bits shifted past bit 7 are dropped
LShiftMasked(x, n) == IF n >= 8 THEN 0 ELSE (x * (2 ^ n)) % 256

RECURSIVE BitAnd(_, _)
BitAnd(x, y) ==
    IF x = 0 \/ y = 0 THEN 0
    ELSE ((x % 2) * (y % 2)) + 2 * BitAnd(x \div 2, y \div 2)

RECURSIVE BitOr(_, _)
BitOr(x, y) ==
    IF x = 0 THEN y
    ELSE IF y = 0 THEN x
    ELSE (IF (x % 2) + (y % 2) > 0 THEN 1 ELSE 0) + 2 * BitOr(x \div 2, y \div 2)

RECURSIVE BitXor(_, _)
BitXor(x, y) ==
    IF x = 0 THEN y
    ELSE IF y = 0 THEN x
    ELSE (((x % 2) + (y % 2)) % 2) + 2 * BitXor(x \div 2, y \div 2)

\* v & 0xff, also for negative v (two's complement of an unbounded integer)
Mask8(v) == v % 256

----------------------------------------------------------------------------
(* Decoding, as computed at the top of the loop body *)

num_operands(ir) == RShift(ir, OPERANDS_OFFSET)
is_alu_operation(ir) == RShift(BitAnd(ir, ALU_MASK), ALU_OFFSET)
sets_pc(ir) == RShift(BitAnd(ir, PC_MASK), PC_OFFSET)

dispatch_table == {CALL, HLT, LDI, PRN, POP, PUSH, RET}

ValidAddress(a) == a \in 0 .. (RamSize - 1)
ValidRegister(a) == a \in 0 .. (NumRegs - 1)

----------------------------------------------------------------------------
(* Handlers.  Each yields the CPU state it leaves behind and the exception *)
(* it raised ("None" when it returned normally); a handler that raises     *)
(* midway keeps the assignments it had already made.                       *)

Outcome(exc, r, m, p, o) == [exc |-> exc, reg |-> r, ram |-> m, pc |-> p, out |-> o]

stack_pointer(r) == r[SP]

SetStackPointer(r, value) == [r EXCEPT ![SP] = Mask8(value)]

ram_read(m, address) == m[address]

ram_write(m, address, value) == [m EXCEPT ![address] = value]

Printed(v) == [kind |-> "value", val |-> v]

BadInstruction == [kind |-> "Bad instruction", val |-> 0]

hlt == Outcome("SystemExit", reg, ram, pc, output)

call(a) ==
    LET r1 == SetStackPointer(reg, stack_pointer(reg) - 1)
        m1 == ram_write(ram, stack_pointer(r1), pc + 2)
    IN  IF ValidRegister(a)
        THEN Outcome("None", r1, m1, r1[a], output)
        ELSE Outcome("IndexError", r1, m1, pc, output)

ldi(a, value) ==
    IF ValidRegister(a)
    THEN Outcome("None", [reg EXCEPT ![a] = value], ram, pc, output)
    ELSE Outcome("IndexError", reg, ram, pc, output)

ret ==
    LET p1 == ram_read(ram, stack_pointer(reg))
    IN  Outcome("None", SetStackPointer(reg, stack_pointer(reg) + 1), ram, p1, output)

\* pop that increments the stack pointer before it reads the cell
pop_increment_first(a) ==
    IF ValidRegister(a)
    THEN LET r0 == SetStackPointer(reg, stack_pointer(reg) + 1)
         IN  Outcome("None", [r0 EXCEPT ![a] = ram_read(ram, stack_pointer(r0))], ram, pc, output)
    ELSE Outcome("IndexError", reg, ram, pc, output)

\* pop that also zeroes the cell it popped
pop_clearing(a) ==
    IF ValidRegister(a)
    THEN LET r1 == [reg EXCEPT ![a] = ram_read(ram, stack_pointer(reg))]
         IN  Outcome("None", SetStackPointer(r1, stack_pointer(r1) + 1),
                     ram_write(ram, stack_pointer(reg), 0), pc, output)
    ELSE Outcome("IndexError", reg, ram, pc, output)

pop(a) ==
    IF ValidRegister(a)
    THEN LET r1 == [reg EXCEPT ![a] = ram_read(ram, stack_pointer(reg))]
         IN  Outcome("None", SetStackPointer(r1, stack_pointer(r1) + 1), ram, pc, output)
    ELSE Outcome("IndexError", reg, ram, pc, output)

prn(a) ==
    IF ValidRegister(a)
    THEN Outcome("None", reg, ram, pc, Append(output, Printed(reg[a])))
    ELSE Outcome("IndexError", reg, ram, pc, output)

\* push that stores at the address the stack pointer held on entry
push_before_decrement(a) ==
    LET r1 == SetStackPointer(reg, stack_pointer(reg) - 1)
    IN  IF ValidRegister(a)
        THEN Outcome("None", r1, ram_write(ram, stack_pointer(reg), r1[a]), pc, output)
        ELSE Outcome("IndexError", r1, ram, pc, output)

push(a) ==
    LET r1 == SetStackPointer(reg, stack_pointer(reg) - 1)
    IN  IF ValidRegister(a)
        THEN Outcome("None", r1, ram_write(ram, stack_pointer(r1), r1[a]), pc, output)
        ELSE Outcome("IndexError", r1, ram, pc, output)

BinaryOps == {ADD, AND, DIV, MOD, MUL, OR, SHL, SHR, SUB, XOR}
UnaryOps == {DEC, INC, NOT}
AluOps == BinaryOps \cup UnaryOps \cup {CMP}

\* the value alu assigns to reg[a] before the final mask, for operands x, y
AluValue(op, x, y) ==
    CASE op = ADD -> x + y
      [] op = AND -> BitAnd(x, y)
      [] op = DEC -> x - 1
      [] op = DIV -> x \div y
      [] op = INC -> x + 1
      [] op = MOD -> x % y
      [] op = MUL -> x * y
      [] op = NOT -> (-x) - 1
      [] op = OR  -> BitOr(x, y)
      [] op = SHL -> LShiftMasked(x, y)
      [] op = SHR -> RShift(x, y)
      [] op = SUB -> x - y
      [] op = XOR -> BitXor(x, y)
      [] OTHER    -> x

\* the exception alu raises for op on register indices a, b ("None": none);
\* the loop passes b only to two-operand instructions, and every unary op is
\* a one-operand byte, so the omitted b of a unary op is never read
AluException(op, a, b) ==
    IF op \notin AluOps THEN "Exception"
    ELSE IF op = CMP THEN (IF ValidRegister(a) THEN "None" ELSE "IndexError")
    ELSE IF op \in UnaryOps THEN (IF ValidRegister(a) THEN "None" ELSE "IndexError")
    ELSE IF op = DIV THEN
        (IF ~ValidRegister(b) THEN "IndexError"
         ELSE IF reg[b] = 0 THEN "ValueError"
         ELSE IF ValidRegister(a) THEN "None" ELSE "IndexError")
    ELSE IF ~ValidRegister(a) \/ ~ValidRegister(b) THEN "IndexError"
    ELSE IF op = MOD /\ reg[b] = 0 THEN "ZeroDivisionError"
    ELSE "None"

\* alu without the final 8-bit mask
alu_unmasked(op, a, b) ==
    LET exc == AluException(op, a, b)
    IN  IF exc # "None"
        THEN Outcome(exc, reg, ram, pc, output)
        ELSE LET y == IF op \in BinaryOps THEN reg[b] ELSE 0
                 v == AluValue(op, reg[a], y)
             IN  Outcome("None", [reg EXCEPT ![a] = v], ram, pc, output)

alu(op, a, b) ==
    LET exc == AluException(op, a, b)
    IN  IF exc # "None"
        THEN Outcome(exc, reg, ram, pc, output)
        ELSE LET y == IF op \in BinaryOps THEN reg[b] ELSE 0
                 v == AluValue(op, reg[a], y)
             IN  Outcome("None", [reg EXCEPT ![a] = Mask8(v)], ram, pc, output)

\* the handler dispatch_table[ir] applied to the operand bytes a, b
Dispatch(ir, a, b) ==
    CASE ir = CALL -> call(a)
      [] ir = HLT  -> hlt
      [] ir = LDI  -> ldi(a, b)
      [] ir = PRN  -> prn(a)
      [] ir = POP  -> pop(a)
      [] ir = PUSH -> push(a)
      [] ir = RET  -> ret

----------------------------------------------------------------------------
(* Program images.  load() stores the bytes of the program file at          *)
(* consecutive addresses from 0; every other cell keeps the 0 of __init__.  *)

load(bytes) == [address \in 0 .. (RamSize - 1) |->
                  IF address < Len(bytes) THEN bytes[address + 1] ELSE 0]

Zeros(n) == [i \in 1 .. n |-> NOP]

\* a program file holding the given instructions at the given addresses and
\* NOP bytes everywhere else up to the last instruction
Placed(placements) ==
    LET end == CHOOSE e \in 0 .. RamSize :
                   /\ \A q \in placements : q[1] + Len(q[2]) <= e
                   /\ \E q \in placements : q[1] + Len(q[2]) = e
    IN  [i \in 1 .. end |->
           IF \E q \in placements : i - 1 \in q[1] .. (q[1] + Len(q[2]) - 1)
           THEN LET q == CHOOSE q \in placements : i - 1 \in q[1] .. (q[1] + Len(q[2]) - 1)
                IN  q[2][i - q[1]]
           ELSE NOP]

RECURSIVE Contiguous(_)
Contiguous(prog) ==
    IF prog = <<>> THEN <<>> ELSE Head(prog) \o Contiguous(Tail(prog))

\* each instruction followed by as many NOP bytes as it is long
RECURSIVE Spaced(_)
Spaced(prog) ==
    IF prog = <<>> THEN <<>>
    ELSE Head(prog) \o Zeros(Len(Head(prog))) \o Spaced(Tail(prog))

\* instruction encodings as the bytes of a program file
I0(op) == <<op>>
I1(op, a) == <<op, a>>
I2(op, a, b) == <<op, a, b>>

MaxProgLen == 3
MaxFetches == 8

InstructionPool ==
    { I2(LDI, 0, 8), I2(LDI, 1, 9), I2(LDI, 7, 0),
      I2(ADD, 0, 1), I2(DIV, 0, 1),
      I1(DEC, 7), I1(PRN, 0), I1(PUSH, 0), I1(POP, 1), I0(HLT) }

RECURSIVE ProgramsOfLength(_)
ProgramsOfLength(n) ==
    IF n = 0 THEN {<<>>}
    ELSE {<<i>> \o p : i \in InstructionPool, p \in ProgramsOfLength(n - 1)}

Programs == UNION {ProgramsOfLength(n) : n \in 1 .. MaxProgLen}

AdditionProgram == <<I2(LDI, 0, 8), I2(LDI, 1, 9), I2(ADD, 0, 1), I1(PRN, 0), I0(HLT)>>

HaltProgram == <<I0(HLT)>>

\* every byte value as the first instruction, with a few operand bytes
FirstByteFiles == {<<op, a, b>> : op \in 0 .. 255, a \in {0, 7, 8}, b \in {0, 1}}

\* LDI R7,s; LDI Ra,v; PUSH a; POP b
StackFiles ==
    {Spaced(<<I2(LDI, 7, s), I2(LDI, a, v), I1(PUSH, a), I1(POP, b)>>) :
        s \in {0, 1, 17, 18, 247, 255}, v \in {1, 70, 255}, a \in {0, 1, 7}, b \in {0, 1, 7}}

\* LDI R0,t; LDI R1,u; CALL r; then x where the first CALL lands when r = 0
\* and y where a CALL R1 lands
CallFiles ==
    {Placed({<<0, I2(LDI, 0, t)>>, <<6, I2(LDI, 1, 30)>>, <<12, I1(CALL, r)>>, <<32, y>>}
            \cup (IF t + 2 + Len(x) <= RamSize THEN {<<t + 2, x>>} ELSE {})) :
        t \in {20, 252, 254}, r \in {0, 7, 8},
        x \in {I0(RET), I1(CALL, 1), I1(POP, 2)},
        y \in {I0(RET), I1(POP, 2), I0(HLT)}}

\* register contents the ALU is exercised on
AluSamples == {0, 1, 2, 7, 8, 9, 85, 128, 170, 254, 255}

\* LDI R0,x; LDI R1,y; then one ALU instruction on R0 (and R1 or R0 again)
AluFiles ==
    {Spaced(<<I2(LDI, 0, x), I2(LDI, 1, y), i>>) :
        x \in AluSamples, y \in AluSamples,
        i \in {I2(op, 0, b) : op \in BinaryOps \cup {CMP}, b \in {0, 1}}
              \cup {I1(op, 0) : op \in UnaryOps}}

\* LDI R0,t; CALL R0; then an instruction at the very end of memory, some of
\* whose operand bytes or successor lie past address 255
EdgeFiles ==
    {Placed({<<0, I2(LDI, 0, t)>>, <<6, I1(CALL, 0)>>, <<t + 2, x>>}) :
        t \in {252, 253},
        x \in {I0(PUSH), I0(INC), I0(JMP), I0(LDI), I0(ADD)}}
    \cup
    {Placed({<<0, I2(LDI, 0, 252)>>, <<6, I1(CALL, 0)>>, <<254, x>>}) :
        x \in {I1(PUSH, 0), I1(INC, 0), I1(PRN, 0), I1(LDI, 0), I1(ADD, 0)}}

ConditionalJumps == {JEQ, JNE, JGT, JGE, JLT, JLE}

\* CMP R0,R1 followed, where the loop fetches next, by a conditional jump
CompareFiles ==
    {Placed({<<0, I2(CMP, 0, 1)>>, <<6, I1(j, 2)>>}) : j \in ConditionalJumps}

ProgramFiles ==
    {Contiguous(p) : p \in Programs \cup {AdditionProgram}}
    \cup {Spaced(p) : p \in Programs \cup {AdditionProgram}}
    \cup FirstByteFiles \cup StackFiles \cup CallFiles \cup AluFiles \cup EdgeFiles
    \cup CompareFiles

----------------------------------------------------------------------------
(* State after CPU() and load(), at the first fetch of run() *)

NoInstruction ==
    [ir |-> -1, pc |-> -1, a |-> -1, b |-> -1,
     reg |-> [i \in 0 .. (NumRegs - 1) |-> 0], done |-> FALSE]

Init ==
    /\ ram \in {load(f) : f \in ProgramFiles}
    /\ reg = SetStackPointer([i \in 0 .. (NumRegs - 1) |-> 0], InitialStackPointer)
    /\ pc = 0
    /\ instruction_reg = ram_read(ram, 0)
    /\ status = "Running"
    /\ fault = "None"
    /\ output = <<>>
    /\ fetches = 1
    /\ last = NoInstruction
    /\ before = NoInstruction

----------------------------------------------------------------------------
(* One iteration of the while loop of run() *)

Looping == status = "Running" /\ fetches < MaxFetches

\* what the iteration that is starting will be remembered as
Executed(a, b, done) ==
    [ir |-> instruction_reg, pc |-> pc, a |-> a, b |-> b, reg |-> reg, done |-> done]

\* an exception leaves run(): the state is as the raising statement left it
Raise(h, a, b) ==
    /\ status' = IF h.exc = "SystemExit" THEN "Exited" ELSE "Faulted"
    /\ fault' = h.exc
    /\ reg' = h.reg
    /\ ram' = h.ram
    /\ pc' = h.pc
    /\ output' = h.out
    /\ UNCHANGED <<instruction_reg, fetches>>
    /\ before' = last
    /\ last' = Executed(a, b, FALSE)

\* the handler returned: the branch adds inc to pc, the loop adds the
\* instruction length unless the byte has the sets-PC bit, then the next
\* instruction byte is read
\* a loop whose PC wraps around at the end of memory
Advance_wrapping(h, inc, a, b) ==
    LET pc1 == h.pc + inc
        pc2 == (IF sets_pc(instruction_reg) = 0
                THEN pc1 + num_operands(instruction_reg) + 1
                ELSE pc1) % RamSize
    IN  /\ reg' = h.reg
        /\ ram' = h.ram
        /\ output' = h.out
        /\ pc' = pc2
        /\ before' = last
        /\ last' = Executed(a, b, TRUE)
        /\ instruction_reg' = ram_read(h.ram, pc2)
        /\ fetches' = fetches + 1
        /\ UNCHANGED <<status, fault>>

Advance(h, inc, a, b) ==
    LET pc1 == h.pc + inc
        pc2 == IF sets_pc(instruction_reg) = 0
               THEN pc1 + num_operands(instruction_reg) + 1
               ELSE pc1
    IN  /\ reg' = h.reg
        /\ ram' = h.ram
        /\ output' = h.out
        /\ pc' = pc2
        /\ before' = last
        /\ last' = Executed(a, b, TRUE)
        /\ IF ValidAddress(pc2)
           THEN /\ instruction_reg' = ram_read(h.ram, pc2)
                /\ fetches' = fetches + 1
                /\ UNCHANGED <<status, fault>>
           ELSE /\ status' = "Faulted"
                /\ fault' = "IndexError"
                /\ UNCHANGED <<instruction_reg, fetches>>

Complete(h, inc, a, b) ==
    IF h.exc = "None" THEN Advance(h, inc, a, b) ELSE Raise(h, a, b)

Here(exc) == Outcome(exc, reg, ram, pc, output)

AluOneOperand ==
    /\ Looping
    /\ is_alu_operation(instruction_reg) # 0
    /\ num_operands(instruction_reg) = 1
    /\ IF ~ValidAddress(pc + 1)
       THEN Raise(Here("IndexError"), -1, -1)
       ELSE LET a == ram_read(ram, pc + 1)
            IN  Complete(alu(instruction_reg, a, -1), 2, a, -1)

AluTwoOperands ==
    /\ Looping
    /\ is_alu_operation(instruction_reg) # 0
    /\ num_operands(instruction_reg) = 2
    /\ IF ~ValidAddress(pc + 2)
       THEN Raise(Here("IndexError"), -1, -1)
       ELSE LET a == ram_read(ram, pc + 1)
                b == ram_read(ram, pc + 2)
            IN  Complete(alu(instruction_reg, a, b), 3, a, b)

AluBadInstruction ==
    /\ Looping
    /\ is_alu_operation(instruction_reg) # 0
    /\ num_operands(instruction_reg) \notin {1, 2}
    /\ Advance(Outcome("None", reg, ram, pc, Append(output, BadInstruction)), 0, -1, -1)

DispatchNoOperand ==
    /\ Looping
    /\ is_alu_operation(instruction_reg) = 0
    /\ num_operands(instruction_reg) = 0
    /\ IF instruction_reg \notin dispatch_table
       THEN Raise(Here("KeyError"), -1, -1)
       ELSE Complete(Dispatch(instruction_reg, -1, -1), 1, -1, -1)

DispatchOneOperand ==
    /\ Looping
    /\ is_alu_operation(instruction_reg) = 0
    /\ num_operands(instruction_reg) = 1
    /\ IF instruction_reg \notin dispatch_table
       THEN Raise(Here("KeyError"), -1, -1)
       ELSE IF ~ValidAddress(pc + 1)
       THEN Raise(Here("IndexError"), -1, -1)
       ELSE LET a == ram_read(ram, pc + 1)
            IN  Complete(Dispatch(instruction_reg, a, -1), 2, a, -1)

DispatchTwoOperands ==
    /\ Looping
    /\ is_alu_operation(instruction_reg) = 0
    /\ num_operands(instruction_reg) = 2
    /\ IF instruction_reg \notin dispatch_table
       THEN Raise(Here("KeyError"), -1, -1)
       ELSE IF ~ValidAddress(pc + 2)
       THEN Raise(Here("IndexError"), -1, -1)
       ELSE LET a == ram_read(ram, pc + 1)
                b == ram_read(ram, pc + 2)
            IN  Complete(Dispatch(instruction_reg, a, b), 3, a, b)

DispatchBadInstruction ==
    /\ Looping
    /\ is_alu_operation(instruction_reg) = 0
    /\ num_operands(instruction_reg) \notin {0, 1, 2}
    /\ Advance(Outcome("None", reg, ram, pc, Append(output, BadInstruction)), 0, -1, -1)

Next ==
    \/ AluOneOperand
    \/ AluTwoOperands
    \/ AluBadInstruction
    \/ DispatchNoOperand
    \/ DispatchOneOperand
    \/ DispatchTwoOperands
    \/ DispatchBadInstruction

Spec == Init /\ [][Next]_vars

TypeOK ==
    /\ DOMAIN ram = 0 .. (RamSize - 1)
    /\ DOMAIN reg = 0 .. (NumRegs - 1)
    /\ status \in {"Running", "Exited", "Faulted"}
    /\ fetches \in 1 .. MaxFetches

----------------------------------------------------------------------------
(* Properties *)

\* names the specification gives to the exceptions that leave run()
DivisionByZero == "ValueError"
UnimplementedOpcode == "KeyError"

\* the handler of the instruction fetched at last.pc returned normally, and
\* so did the handler of the instruction executed just before it
LastTwoDone == before.done /\ last.done

\* C1: every register holds a value in 0..255 in every reachable state
C1_RegistersAreBytes ==
    \A i \in 0 .. (NumRegs - 1) : reg[i] \in 0 .. 255

PushThenPop == LastTwoDone /\ before.ir = PUSH /\ last.ir = POP

\* C2 as stated: after PUSH a immediately followed by POP b, for any a, b in
\* 0..7, register b holds what register a held before the PUSH and the stack
\* pointer is back at its value before the PUSH
C2_PushPopAnyRegisters ==
    PushThenPop =>
        /\ reg[last.a] = before.reg[before.a]
        /\ stack_pointer(reg) = stack_pointer(before.reg)

\* C2 amended: the same, for a and b both different from register 7, or both
\* register 7
C2_PushPopRoundTrip ==
    (PushThenPop /\ ((before.a = SP) <=> (last.a = SP))) =>
        /\ reg[last.a] = before.reg[before.a]
        /\ stack_pointer(reg) = stack_pointer(before.reg)

\* PUSH R0 with R0 = 255 at stack pointer 0 (which wraps to 255), then POP R1
C2_Witness ==
    /\ PushThenPop
    /\ before.a = 0
    /\ last.a = 1
    /\ stack_pointer(before.reg) = 0
    /\ before.reg[0] = 255
    /\ reg[1] = 255
    /\ stack_pointer(reg) = 0

\* C3: after CALL fetched at p immediately followed by RET, PC is p + 2 and
\* the stack pointer is back at its value before the CALL
C3_CallRetReturnsPastCall ==
    (LastTwoDone /\ before.ir = CALL /\ last.ir = RET) =>
        /\ pc = before.pc + 2
        /\ stack_pointer(reg) = stack_pointer(before.reg)

DivOrModByZero ==
    /\ Looping
    /\ instruction_reg \in {DIV, MOD}
    /\ ValidAddress(pc + 2)
    /\ ValidRegister(ram[pc + 1])
    /\ ValidRegister(ram[pc + 2])
    /\ reg[ram[pc + 2]] = 0

\* C4: DIV and MOD with a zero source register both end the run in the
\* DivisionByZero fault, with registers, memory and PC unchanged
C4_DivModByZeroSameFault ==
    [][DivOrModByZero =>
          /\ status' = "Faulted"
          /\ fault' = DivisionByZero
          /\ reg' = reg
          /\ ram' = ram
          /\ pc' = pc]_vars

\* C5: the program that is only HLT stops after one fetch by returning from
\* run() (no exception leaves it), with PC = 1
C5_HaltReturnsWithPcOne ==
    (ram = load(Contiguous(HaltProgram)) /\ status # "Running") =>
        /\ fault = "None"
        /\ fetches = 1
        /\ pc = 1

\* C6: the contiguously loaded addition program prints exactly 17, leaves 17
\* in register 0 and stops at its HLT instruction
C6_AdditionProgramPrints17 ==
    (ram = load(Contiguous(AdditionProgram)) /\ status # "Running") =>
        /\ output = <<Printed(17)>>
        /\ reg[0] = 17
        /\ last.ir = HLT

\* C7: fetching a byte with the ALU flag clear that has no handler ends the
\* run in UnimplementedOpcode with PC, registers and memory unchanged,
\* whatever its operand count
C7_UnregisteredOpcodeFaults ==
    [][(/\ Looping
        /\ instruction_reg \in 0 .. 255
        /\ is_alu_operation(instruction_reg) = 0
        /\ instruction_reg \notin dispatch_table) =>
          /\ status' = "Faulted"
          /\ fault' = UnimplementedOpcode
          /\ pc' = pc
          /\ reg' = reg
          /\ ram' = ram]_vars

\* C8: an instruction without the sets-PC bit that neither halts nor faults
\* is followed by a fetch at its own address plus its operand count plus 1
C8_PcAdvancesByInstructionLength ==
    [][(/\ Looping
        /\ instruction_reg \in 0 .. 255
        /\ sets_pc(instruction_reg) = 0
        /\ fetches' = fetches + 1) =>
          pc' = pc + num_operands(instruction_reg) + 1]_vars

\* C9: CALL r fetched at p with stack pointer s is followed by a fetch at the
\* address held in register r, with stack pointer (s - 1) mod 256 and p + 2
\* stored in the cell at that stack pointer
C9_CallJumpsToRegister ==
    [][(/\ Looping
        /\ instruction_reg = CALL
        /\ ValidAddress(pc + 1)
        /\ ValidRegister(ram[pc + 1])) =>
          /\ pc' = reg'[ram[pc + 1]]
          /\ stack_pointer(reg') = (stack_pointer(reg) - 1) % 256
          /\ ram'[stack_pointer(reg')] = pc + 2]_vars

\* C10: fetching a byte whose operand-count field is 3 ends the run in a
\* fault; the loop never goes on to another fetch after it
C10_OperandCountThreeFaults ==
    [][(Looping /\ num_operands(instruction_reg) = 3) =>
          (status' = "Faulted" /\ fetches' = fetches)]_vars

UnsupportedAluOperation == "Exception"

\* C11: fetching a byte with the ALU flag set that is none of the ALU
\* operations ends the run in UnsupportedAluOperation with registers, memory
\* and PC unchanged, whatever its operand count
C11_UnsupportedAluOperationFaults ==
    [][(/\ Looping
        /\ instruction_reg \in 0 .. 255
        /\ is_alu_operation(instruction_reg) # 0
        /\ instruction_reg \notin AluOps) =>
          /\ status' = "Faulted"
          /\ fault' = UnsupportedAluOperation
          /\ reg' = reg
          /\ ram' = ram
          /\ pc' = pc]_vars

\* C12: PUSH or CALL at stack pointer 0, and POP or RET at the initial stack
\* pointer (empty stack) or at stack pointer 255, end the run in a fault with
\* memory and registers unchanged
C12_StackBoundsFault ==
    [][(/\ Looping
        /\ \/ instruction_reg \in {PUSH, CALL} /\ stack_pointer(reg) = 0
           \/ /\ instruction_reg \in {POP, RET}
              /\ stack_pointer(reg) \in {InitialStackPointer, 255}) =>
          /\ status' = "Faulted"
          /\ reg' = reg
          /\ ram' = ram]_vars

\* the instruction byte makes the loop read n operand bytes
ReadsOperands(ir, n) ==
    /\ num_operands(ir) = n
    /\ n \in {1, 2}
    /\ (is_alu_operation(ir) # 0 \/ ir \in dispatch_table)

\* C13: while the loop runs PC is in 0..255; an instruction whose operand
\* bytes lie past address 255 ends the run in a fault where it was fetched;
\* and PC never wraps: an instruction that leaves PC to the loop is followed
\* by a fetch at a higher address or by a fault
C13_NoAccessPastMemory ==
    [][/\ (status' = "Running" => ValidAddress(pc'))
       /\ (\E n \in {1, 2} :
              /\ Looping
              /\ ReadsOperands(instruction_reg, n)
              /\ ~ValidAddress(pc + n)) =>
            (status' = "Faulted" /\ pc' = pc)
       /\ (Looping /\ sets_pc(instruction_reg) = 0 /\ status' = "Running") =>
            pc' > pc]_vars

\* PUSH fetched at address 255: its operand byte would be at 256
C13_Witness ==
    /\ status = "Faulted"
    /\ fault = "IndexError"
    /\ last.ir = PUSH
    /\ last.pc = 255
    /\ ~last.done
    /\ pc = 255

\* C14: a conditional jump executed right after CMP does not fault
C14_ConditionalJumpAfterCmp ==
    [][(/\ Looping
        /\ last.ir = CMP
        /\ last.done
        /\ instruction_reg \in ConditionalJumps) =>
          status' # "Faulted"]_vars

Bit(x, i) == (x \div (2 ^ i)) % 2

\* bitwise combination of two 8-bit values, bit by bit
Bitwise(op, x, y) ==
    LET bit(i) == CASE op = AND -> Bit(x, i) * Bit(y, i)
                    [] op = OR  -> IF Bit(x, i) + Bit(y, i) > 0 THEN 1 ELSE 0
                    [] op = XOR -> IF Bit(x, i) # Bit(y, i) THEN 1 ELSE 0
    IN  bit(0) + 2 * bit(1) + 4 * bit(2) + 8 * bit(3)
        + 16 * bit(4) + 32 * bit(5) + 64 * bit(6) + 128 * bit(7)

\* the reference result of an ALU operation on 8-bit x and y
Reference(op, x, y) ==
    CASE op = ADD -> (x + y) % 256
      [] op = SUB -> (x - y) % 256
      [] op = MUL -> (x * y) % 256
      [] op = DIV -> x \div y
      [] op = MOD -> x % y
      [] op \in {AND, OR, XOR} -> Bitwise(op, x, y)
      [] op = SHL -> IF y >= 8 THEN 0 ELSE (x * (2 ^ y)) % 256
      [] op = SHR -> IF y >= 8 THEN 0 ELSE x \div (2 ^ y)
      [] op = NOT -> 255 - x
      [] op = INC -> IF x = 255 THEN 0 ELSE x + 1
      [] op = DEC -> IF x = 0 THEN 255 ELSE x - 1

\* C15: an ALU operation that executed on 8-bit register contents x (register
\* a) and y (register b) leaves the reference result in register a, also when
\* a = b
C15_AluMatchesReference ==
    (/\ last.done
     /\ last.ir \in BinaryOps \cup UnaryOps
     /\ last.reg[last.a] \in 0 .. 255
     /\ (last.ir \in BinaryOps => last.reg[last.b] \in 0 .. 255)) =>
        reg[last.a] = Reference(last.ir, last.reg[last.a],
                                IF last.ir \in BinaryOps THEN last.reg[last.b] ELSE 0)

\* ADD R0,R0 with R0 = 255 leaves 254
C15_Witness ==
    /\ last.done
    /\ last.ir = ADD
    /\ last.a = 0
    /\ last.b = 0
    /\ last.reg[0] = 255
    /\ reg[0] = 254

StackDelta(ir) ==
    IF ir \in {PUSH, CALL} THEN -1 ELSE IF ir \in {POP, RET} THEN 1 ELSE 0

\* the instruction being executed names register 7 as its destination
WritesStackPointerRegister ==
    /\ (is_alu_operation(instruction_reg) # 0 \/ instruction_reg \in {LDI, POP})
    /\ last'.a = SP

\* C16: every executed instruction that does not name register 7 as its
\* destination moves the stack pointer by -1 (PUSH, CALL), +1 (POP, RET) or
\* 0 (any other), mod 256, so that from 0xF7 it always equals 0xF7 minus the
\* pushes and calls plus the pops and returns; PUSH stores at the decremented
\* address and POP reads at the address before the increment
C16_StackPointerCountsStackOps ==
    [][(Looping /\ last'.done /\ ~WritesStackPointerRegister) =>
          /\ stack_pointer(reg') =
                (stack_pointer(reg) + StackDelta(instruction_reg)) % 256
          /\ (instruction_reg = PUSH =>
                ram'[stack_pointer(reg')] = reg'[last'.a])
          /\ (instruction_reg = POP =>
                reg'[last'.a] = ram[stack_pointer(reg)])]_vars

\* POP at stack pointer 255 leaves it at 0
C16_Witness ==
    /\ last.done
    /\ last.ir = POP
    /\ last.a # SP
    /\ stack_pointer(last.reg) = 255
    /\ stack_pointer(reg) = 0
    /\ reg[last.a] = 255

\* C17: every memory cell holds a value in 0..255 in every reachable state
C17_MemoryCellsAreBytes ==
    \A address \in 0 .. (RamSize - 1) : ram[address] \in 0 .. 255

\* C18: only PUSH and CALL modify memory, and only the cell at the
\* decremented stack pointer; a register changes only if it is the
\* destination of an ALU operation, LDI or POP, or is the stack pointer
\* during PUSH, CALL, POP or RET
C18_FrameEffects ==
    [][/\ (ram' # ram =>
             /\ instruction_reg \in {PUSH, CALL}
             /\ \A address \in 0 .. (RamSize - 1) :
                    address # (stack_pointer(reg) - 1) % 256 =>
                        ram'[address] = ram[address])
       /\ \A i \in 0 .. (NumRegs - 1) :
             reg'[i] # reg[i] =>
                \/ /\ i = last'.a
                   /\ \/ is_alu_operation(instruction_reg) # 0
                      \/ instruction_reg \in {LDI, POP}
                \/ /\ i = SP
                   /\ instruction_reg \in {PUSH, CALL, POP, RET}]_vars

\* CALL R0 fetched at 12 stored its return address in the cell at 246
C18_Witness ==
    /\ last.done
    /\ last.ir = CALL
    /\ last.pc = 12
    /\ stack_pointer(last.reg) = InitialStackPointer
    /\ stack_pointer(reg) = 246
    /\ ram[246] = 14

\* C19: an instruction whose register operand byte is outside 0..7 ends the
\* run in a fault with registers, memory and PC as they were at its fetch
C19_InvalidRegisterLeavesNoEffect ==
    [][(/\ Looping
        /\ \/ instruction_reg \in {LDI, PRN, PUSH, POP, CALL}
           \/ instruction_reg \in AluOps
        /\ ValidAddress(pc + 1)
        /\ ~ValidRegister(ram[pc + 1])) =>
          /\ status' = "Faulted"
          /\ reg' = reg
          /\ ram' = ram
          /\ pc' = pc]_vars

\* C20: every iteration that neither halts nor faults, on an instruction
\* other than CALL and RET, strictly increases PC
C20_PcStrictlyIncreases ==
    [][(/\ Looping
        /\ instruction_reg \notin {CALL, RET}
        /\ status' = "Running") =>
          pc' > pc]_vars

====
